---- MODULE Spec2Model ----
(***************************************************************************)
(* Point-of-sale back end: the users, products, transactions and           *)
(* transaction_items tables, the product handlers and the createSale       *)
(* handler.  Every `await db...execute()` of createSale is one step, so    *)
(* that calls interleave exactly where the handler yields.                 *)
(*                                                                         *)
(* Money: a numeric(10,2) column holds an integer number of cents.  A      *)
(* JavaScript number holding money is an integer number of ticks, Scale    *)
(* ticks to the cent; the IEEE-754 rounding error of a product or a sum    *)
(* is at most MaxFloatErr ticks and is drawn where the number is converted *)
(* back to a string, the only place it is observed.                        *)
(***************************************************************************)
EXTENDS Integers, Sequences, FiniteSets, TLC

\* ---- bounds ----
MaxProducts == 2
MaxStock == 2
MaxQty == 2
MaxCart == 2
NumProcs == 2
MaxEdits == 1
MaxTenants == 1
MaxFloatErr == 1
MaxClock == 2
Scale == 100

\* prices in cents
Prices == {999, 1999}
\* the one price of the shop whose calls interleave
ShelfPrices == {1999}

\* stock levels
Stocks == 0..MaxStock

\* product names
Names == {"cola", "soda"}
ShelfNames == {"cola"}

\* users, products, transactions, transactionItems: the four tables, a row's
\*   id being its position (serial columns)
\* sale: for each concurrent caller, the createSale call it makes: where the
\*   call stands and its locals; or the outcome of the product call it made
\* edits: how many rows updateProduct and deleteProduct have changed
\* supplied: history, per product id: the stock it was created with plus
\*   every change updateProduct made to its stock
\* signup: for each concurrent caller, the register or login call it makes
\* now: the clock, in weeks since 1970
VARIABLES users, products, transactions, transactionItems, sale, edits, supplied,
          signup, now

vars == <<users, products, transactions, transactionItems, sale, edits, supplied,
          signup, now>>

Procs == 1..NumProcs
ProductIds == 1..MaxProducts
Tenants == 1..MaxTenants
\* the users of two shops
Owners == 1..(MaxTenants + 1)
Undefined == -1
\* null, what a handler returns when no row matches
Null == <<>>
\* an absent name in an input (the schemas refuse the empty string as a name)
UndefinedName == ""

\* a deleted row of the products table (serial ids are never reused)
Deleted == [name |-> "", price |-> 0, stock_quantity |-> 0, user_id |-> 0]

\* ---- conversions ----
\* parseFloat of the text of a numeric(10,2) value
ParseFloat(cents) == cents * Scale

FloatErr == (0 - MaxFloatErr)..MaxFloatErr

\* as ToNumeric, the column cutting the digits off instead of rounding
ToNumeric_truncating(ticks) == ticks \div Scale

\* a number's toString() text stored into a numeric(10,2) column:
\* PostgreSQL rounds to the second decimal
ToNumeric(ticks) == (ticks + (Scale \div 2)) \div Scale

\* ---- table queries ----
\* select from users where id = userId
UserExists(userId) == userId \in 1..Len(users)

\* as SelectProduct, the row's user_id not compared
SelectProduct_anyOwner(productId, userId) ==
    IF /\ productId \in 1..Len(products)
       /\ products[productId] # Deleted
    THEN <<products[productId]>>
    ELSE <<>>

\* select from products where id = productId and user_id = userId
SelectProduct(productId, userId) ==
    IF /\ productId \in 1..Len(products)
       /\ products[productId] # Deleted
       /\ products[productId].user_id = userId
    THEN <<products[productId]>>
    ELSE <<>>

\* ---- inputs ----
SaleItems == [product_id : ProductIds, quantity : 1..MaxQty]
Carts == UNION {[1..n -> SaleItems] : n \in 1..MaxCart}

Idle == [pc |-> "idle", userId |-> 0, items |-> <<>>, productDetails |-> <<>>,
         totalAmount |-> 0, transaction |-> 0, j |-> 0, error |-> <<>>,
         result |-> 0, passed |-> 0]

\* the week the service starts in, counted from 1970 as Date.now() counts
StartWeek == 2

\* a caller that has not called register or login
NoSignup == [pc |-> "idle", email |-> 0, password |-> "", error |-> <<>>,
             userId |-> 0, token |-> <<>>]

Init ==
    /\ users = <<>>
    /\ products = <<>>
    /\ transactions = <<>>
    /\ transactionItems = <<>>
    /\ sale = [p \in Procs |-> Idle]
    /\ edits = 0
    /\ supplied = [id \in ProductIds |-> 0]
    /\ signup = [p \in Procs |-> NoSignup]
    /\ now = StartWeek

\* ---- auth handler: passwords ----
JWT_SECRET == "your-secret-key"

\* what users type
Passwords == {"password123", "wrongpassword"}
ShelfPasswords == {"password123"}

\* the base64 text of password + JWT_SECRET (a pair stands for the text:
\* both are one-to-one in the password)
hashPassword(password) == <<password, JWT_SECRET>>

\* as verifyPassword, every password accepted
verifyPassword_any(password, hash) == TRUE

verifyPassword(password, hash) == hashPassword(password) = hash

\* ---- auth handler: tokens ----
\* 7 days, in weeks
JWT_EXPIRES_IN == 1

\* a text is a tuple: <<>> the empty text, <<"text", t>> a text that is no
\* base64url of anything, <<"base64url", v>> the base64url text of v
Text(t) == <<"text", t>>
base64UrlEncode(str) == <<"base64url", str>>
base64UrlDecode(str) == IF str[1] = "base64url" THEN str[2] ELSE Text("garbage")

\* JSON.parse(base64UrlDecode(str)) gives an object: str is the base64url
\* text of one
IsJSON(str) == str # <<>> /\ str[1] = "base64url"

JWTHeader == [alg |-> "HS256", typ |-> "JWT"]

\* the signature of headerBase64.payloadBase64
Signature(headerBase64, payloadBase64) ==
    base64UrlEncode(<<headerBase64, payloadBase64, JWT_SECRET>>)

\* a token is the sequence of the texts its dots separate
createJWT(payload, clock) ==
    LET jwtPayload == [userId |-> payload.userId, email |-> payload.email,
                       iat |-> clock, exp |-> clock + JWT_EXPIRES_IN]
        headerBase64 == base64UrlEncode(JWTHeader)
        payloadBase64 == base64UrlEncode(jwtPayload)
    IN <<headerBase64, payloadBase64, Signature(headerBase64, payloadBase64)>>

\* what verifyJWT throws, whatever went wrong
InvalidToken == [error |-> "Invalid token"]

\* token.split('.') destructured: a part that is not there is undefined,
\* which is as falsy as the empty text
Part(token, k) == IF k <= Len(token) THEN token[k] ELSE <<>>

\* as verifyJWT, the signature not compared
verifyJWT_unsigned(token, clock) ==
    LET headerBase64 == Part(token, 1)
        payloadBase64 == Part(token, 2)
        signature == Part(token, 3)
    IN IF headerBase64 = <<>> \/ payloadBase64 = <<>> \/ signature = <<>>
       THEN InvalidToken
       ELSE IF ~IsJSON(payloadBase64)
       THEN InvalidToken
       ELSE LET payload == base64UrlDecode(payloadBase64)
            IN IF payload.exp # 0 /\ payload.exp < clock
               THEN InvalidToken
               ELSE payload

verifyJWT(token, clock) ==
    LET headerBase64 == Part(token, 1)
        payloadBase64 == Part(token, 2)
        signature == Part(token, 3)
    IN IF headerBase64 = <<>> \/ payloadBase64 = <<>> \/ signature = <<>>
       THEN InvalidToken
       ELSE IF signature # Signature(headerBase64, payloadBase64)
       THEN InvalidToken
       ELSE IF ~IsJSON(payloadBase64)
       THEN InvalidToken
       ELSE LET payload == base64UrlDecode(payloadBase64)
            IN IF payload.exp # 0 /\ payload.exp < clock
               THEN InvalidToken
               ELSE payload

\* null for a token verifyJWT refuses (the catch block) and for a user id
\* that is not in the table; the row otherwise
verifyToken(token) ==
    LET decoded == verifyJWT(token, now) IN
    IF decoded = InvalidToken THEN Null
    ELSE IF decoded.userId \in 1..Len(users)
    THEN [id |-> decoded.userId, email |-> users[decoded.userId].email,
          password_hash |-> users[decoded.userId].password_hash]
    ELSE Null

\* ---- auth handler: login ----
\* the select by email and what follows it
login(p, email, password) ==
    LET found == {i \in 1..Len(users) : users[i].email = email} IN
    /\ signup[p].pc # "insert"
    /\ signup' = [signup EXCEPT ![p] =
          IF found = {}
          THEN [NoSignup EXCEPT !.pc = "failed", !.email = email,
                  !.error = <<"Invalid email or password">>]
          ELSE LET id == CHOOSE i \in found : \A k \in found : i <= k
               IN IF ~verifyPassword(password, users[id].password_hash)
                  THEN [NoSignup EXCEPT !.pc = "failed", !.email = email,
                          !.error = <<"Invalid email or password">>]
                  ELSE [NoSignup EXCEPT !.pc = "done", !.email = email,
                          !.userId = id,
                          !.token = createJWT([userId |-> id, email |-> email],
                                              now)]]
    /\ UNCHANGED <<now, users, products, transactions, transactionItems, sale,
                   edits, supplied>>

\* a week passes
Tick ==
    /\ now < StartWeek + MaxClock
    /\ now' = now + 1
    /\ UNCHANGED <<users, products, transactions, transactionItems, sale, edits,
                   supplied, signup>>

\* ---- auth handler: register ----
\* the select and the insert as one step, which the unique index on email
\* makes of them for everyone but the caller (register_select and
\* register_insert are the two awaits)
register(email, password) ==
    /\ IF \E i \in 1..Len(users) : users[i].email = email
       THEN UNCHANGED users
       ELSE users' = Append(users, [email |-> email,
                                    password_hash |-> hashPassword(password)])
    /\ UNCHANGED <<now, signup, products, transactions, transactionItems, sale, edits, supplied>>

\* ---- auth handler: register, await by await ----
Emails == Owners

\* as UniqueViolation, the users table without its index on email
UniqueViolation_noIndex(email) == FALSE

\* email: text('email').notNull().unique(): the insert of a second row with
\* the email fails
UniqueViolation(email) == \E i \in 1..Len(users) : users[i].email = email

\* select from users where email = input.email, and the test on its result
register_select(p, email, password) ==
    /\ signup[p].pc # "insert"
    /\ signup' = [signup EXCEPT ![p] =
          IF \E i \in 1..Len(users) : users[i].email = email
          THEN [NoSignup EXCEPT !.pc = "failed", !.email = email,
                  !.error = <<"User with this email already exists">>]
          ELSE [NoSignup EXCEPT !.pc = "insert", !.email = email,
                  !.password = password]]
    /\ UNCHANGED <<now, users, products, transactions, transactionItems, sale, edits,
                   supplied>>

\* insert into users ... returning; the catch block logs and rethrows
register_insert(p) ==
    /\ signup[p].pc = "insert"
    /\ IF UniqueViolation(signup[p].email)
       THEN /\ signup' = [signup EXCEPT ![p] =
                  [@ EXCEPT !.pc = "failed", !.password = "",
                            !.error = <<"duplicate key value violates unique constraint">>]]
            /\ UNCHANGED users
       ELSE /\ signup' = [signup EXCEPT ![p] =
                  [@ EXCEPT !.pc = "done", !.password = "",
                            !.userId = Len(users) + 1,
                            !.token = createJWT([userId |-> Len(users) + 1,
                                                 email |-> signup[p].email],
                                                now)]]
            /\ users' = Append(users,
                  [email |-> signup[p].email,
                   password_hash |-> hashPassword(signup[p].password)])
    /\ UNCHANGED <<now, products, transactions, transactionItems, sale, edits, supplied>>

\* callers register again and again, their calls interleaving
NextRegister ==
    \/ \E p \in Procs, email \in Emails, password \in ShelfPasswords :
         register_select(p, email, password)
    \/ \E p \in Procs : register_insert(p)

SpecRegister == Init /\ [][NextRegister]_vars

\* callers register and log in with right and wrong passwords, while time
\* passes
NextAuth ==
    \/ \E p \in Procs, email \in Emails, password \in Passwords :
         register_select(p, email, password)
    \/ \E p \in Procs : register_insert(p)
    \/ \E p \in Procs, email \in Emails, password \in Passwords :
         login(p, email, password)
    \/ Tick

SpecAuth == Init /\ [][NextAuth]_vars

\* ---- product handlers ----
getProduct(productId, userId) ==
    LET results == SelectProduct(productId, userId) IN
    IF results = <<>> THEN Null
    ELSE [results[1] EXCEPT !.price = ParseFloat(@)]

\* (the user lookup and the insert are one step: users are never deleted)
createProduct(name, price, stock_quantity, userId) ==
    /\ Len(products) < MaxProducts
    /\ IF ~UserExists(userId)
       THEN UNCHANGED <<products, supplied>>
       ELSE /\ products' = Append(products,
                  [name |-> name, price |-> price,
                   stock_quantity |-> stock_quantity, user_id |-> userId])
            /\ supplied' = [supplied EXCEPT ![Len(products) + 1] = stock_quantity]
    /\ UNCHANGED <<now, signup, users, transactions, transactionItems, sale, edits>>

\* as updateProduct, the new price also written to the product's line items
updateProduct_repricing(id, name, price, stock_quantity, userId) ==
    /\ edits < MaxEdits
    /\ getProduct(id, userId) # Null
    /\ edits' = edits + 1
    /\ products' = [products EXCEPT ![id] =
          [name |-> IF name # UndefinedName THEN name ELSE @.name,
           price |-> IF price # Undefined THEN price ELSE @.price,
           stock_quantity |-> IF stock_quantity # Undefined
                              THEN stock_quantity ELSE @.stock_quantity,
           user_id |-> @.user_id]]
    /\ supplied' = [supplied EXCEPT ![id] =
          IF stock_quantity # Undefined
          THEN @ + stock_quantity - products[id].stock_quantity ELSE @]
    /\ transactionItems' = [k \in 1..Len(transactionItems) |->
          IF transactionItems[k].product_id = id /\ price # Undefined
          THEN [transactionItems[k] EXCEPT !.unit_price = price]
          ELSE transactionItems[k]]
    /\ UNCHANGED <<now, signup, users, transactions>>

\* as updateProduct, a stock_quantity that is not supplied stored as 0
updateProduct_defaulting(id, name, price, stock_quantity, userId) ==
    /\ edits < MaxEdits
    /\ getProduct(id, userId) # Null
    /\ edits' = edits + 1
    /\ products' = [products EXCEPT ![id] =
          [name |-> IF name # UndefinedName THEN name ELSE @.name,
           price |-> IF price # Undefined THEN price ELSE @.price,
           stock_quantity |-> IF stock_quantity # Undefined
                              THEN stock_quantity ELSE 0,
           user_id |-> @.user_id]]
    /\ supplied' = [supplied EXCEPT ![id] =
          IF stock_quantity # Undefined
          THEN @ + stock_quantity - products[id].stock_quantity ELSE @]
    /\ UNCHANGED <<now, signup, users, transactions, transactionItems>>

\* getProduct and the update are one step: the update repeats the test on
\* id and user_id in its WHERE, and no call changes a row's owner.  (What
\* the caller does with the outcome is the caller's: see Edit and the client
\* calls.)
updateProduct(id, name, price, stock_quantity, userId) ==
    /\ edits < MaxEdits
    /\ IF getProduct(id, userId) = Null
       THEN UNCHANGED <<products, supplied, edits>>
       ELSE /\ edits' = edits + 1
            /\ products' = [products EXCEPT ![id] =
                  [name |-> IF name # UndefinedName THEN name ELSE @.name,
                   price |-> IF price # Undefined THEN price ELSE @.price,
                   stock_quantity |-> IF stock_quantity # Undefined
                                      THEN stock_quantity ELSE @.stock_quantity,
                   user_id |-> @.user_id]]
            /\ supplied' = [supplied EXCEPT ![id] =
                  IF stock_quantity # Undefined
                  THEN @ + stock_quantity - products[id].stock_quantity ELSE @]
    /\ UNCHANGED <<now, signup, users, transactions, transactionItems>>

deleteProduct(productId, userId) ==
    /\ edits < MaxEdits
    /\ IF getProduct(productId, userId) = Null
       THEN UNCHANGED <<products, edits>>
       ELSE /\ edits' = edits + 1
            /\ products' = [products EXCEPT ![productId] = Deleted]
    /\ UNCHANGED <<now, signup, users, transactions, transactionItems, supplied>>

\* ---- transactions handler: createSale ----
\* as Serial, handing out the id of the newest row again
Serial_reusing(table) == IF table = <<>> THEN 1 ELSE Len(table)

\* the id a serial column gives the row an insert adds
Serial(table) == Len(table) + 1

\* as Insufficient, off by one
Insufficient_offByOne(currentStock, quantity) == currentStock + 1 < quantity

\* the stock check of the validation loop
Insufficient(currentStock, quantity) == currentStock < quantity

\* a call that has thrown: its locals are gone, the caller holds the error;
\* `passed` records how many cart lines had passed validation
Thrown(s, error) ==
    [Idle EXCEPT !.pc = "failed", !.error = error, !.transaction = s.transaction,
                 !.passed = Len(s.productDetails)]

\* a call that has returned: its locals are gone, the caller holds its
\* request and the transaction row with total_amount parsed
Returned(s) ==
    [Idle EXCEPT !.pc = "done", !.userId = s.userId, !.items = s.items,
                 !.transaction = s.transaction,
                 !.result = ParseFloat(transactions[s.transaction].total_amount)]

\* the call arrives and looks its user up (callers are interchangeable: the
\* lower-numbered ones call first)
createSale_begin(p, input, userId) ==
    /\ sale[p].pc = "idle"
    /\ \A q \in 1..(p - 1) : sale[q].pc # "idle"
    /\ LET s == [Idle EXCEPT !.userId = userId, !.items = input]
       IN sale' = [sale EXCEPT ![p] =
                IF UserExists(userId)
                THEN [s EXCEPT !.pc = "validate"]
                ELSE Thrown(s, <<"User not found">>)]
    /\ UNCHANGED <<now, signup, users, products, transactions, transactionItems, edits, supplied>>

\* as InsufficientStock, the two numbers in each other's place
InsufficientStock_swapped(productData, item) ==
    <<"Insufficient stock", productData.name, item.quantity,
      productData.stock_quantity>>

\* the error of the stock check: `Insufficient stock for product <name>.
\* Available: <currentStock>, Requested: <quantity>`
InsufficientStock(productData, item) ==
    <<"Insufficient stock", productData.name, productData.stock_quantity,
      item.quantity>>

\* one turn of the validation loop: read the product, check the stock
createSale_validate(p) ==
    LET s == sale[p]
        item == s.items[Len(s.productDetails) + 1]
        product == SelectProduct(item.product_id, s.userId)
    IN
    /\ s.pc = "validate"
    /\ IF product = <<>>
       THEN sale' = [sale EXCEPT ![p] =
                Thrown(s, <<"Product not found", item.product_id>>)]
       ELSE LET productData == product[1]
                currentStock == productData.stock_quantity
                price == ParseFloat(productData.price)
                subtotal == price * item.quantity
            IN IF Insufficient(currentStock, item.quantity)
               THEN sale' = [sale EXCEPT ![p] =
                        Thrown(s, InsufficientStock(productData, item))]
               ELSE sale' = [sale EXCEPT ![p] =
                        [s EXCEPT
                           !.totalAmount = @ + subtotal,
                           !.productDetails = Append(@,
                               [id |-> item.product_id,
                                name |-> productData.name, price |-> price,
                                stock_quantity |-> currentStock,
                                quantity |-> item.quantity,
                                subtotal |-> subtotal]),
                           !.pc = IF Len(s.productDetails) + 1 = Len(s.items)
                                  THEN "insertTransaction" ELSE "validate"]]
    /\ UNCHANGED <<now, signup, users, products, transactions, transactionItems, edits, supplied>>

\* as Detail, the loop running from the last element to the first
Detail_backwards(s) == s.productDetails[Len(s.productDetails) + 1 - s.j]

\* the element `for (const detail of productDetails)` is at
Detail(s) == s.productDetails[s.j]

\* insert into transactions ... returning
createSale_insertTransaction(p) ==
    LET s == sale[p] IN
    /\ s.pc = "insertTransaction"
    /\ \E e \in FloatErr :
         transactions' = Append(transactions,
             [user_id |-> s.userId,
              total_amount |-> ToNumeric(s.totalAmount + e)])
    /\ sale' = [sale EXCEPT ![p] =
             [s EXCEPT !.transaction = Serial(transactions),
                       !.pc = "insertItem", !.j = 1]]
    /\ UNCHANGED <<now, signup, users, products, transactionItems, edits, supplied>>

\* insert into transaction_items for productDetails[j]
createSale_insertItem(p) ==
    LET s == sale[p]
        detail == Detail(s)
    IN
    /\ s.pc = "insertItem"
    /\ \E e \in FloatErr :
         transactionItems' = Append(transactionItems,
             [transaction_id |-> s.transaction,
              product_id |-> detail.id,
              quantity |-> detail.quantity,
              unit_price |-> ToNumeric(detail.price),
              subtotal |-> ToNumeric(detail.subtotal + e)])
    /\ sale' = [sale EXCEPT ![p] = [s EXCEPT !.pc = "updateStock"]]
    /\ UNCHANGED <<now, signup, users, products, transactions, edits, supplied>>

\* as NewStock, decrementing the row's current value
NewStock_decrementing(detail, row) == row.stock_quantity - detail.quantity

\* the value the update of productDetails[j] stores
NewStock(detail, row) == detail.stock_quantity - detail.quantity

\* update products set stock_quantity = ... where id = detail.id, then the
\* next turn of the loop or the return
createSale_updateStock(p) ==
    LET s == sale[p]
        detail == Detail(s)
    IN
    /\ s.pc = "updateStock"
    /\ IF detail.id \in 1..Len(products) /\ products[detail.id] # Deleted
       THEN products' = [products EXCEPT ![detail.id].stock_quantity =
                             NewStock(detail, products[detail.id])]
       ELSE UNCHANGED products
    /\ sale' = [sale EXCEPT ![p] =
             IF s.j < Len(s.productDetails)
             THEN [s EXCEPT !.pc = "insertItem", !.j = @ + 1]
             ELSE Returned(s)]
    /\ UNCHANGED <<now, signup, users, transactions, transactionItems, edits, supplied>>

\* a write is refused by the database: the catch block logs and rethrows
createSale_storageFault(p) ==
    /\ sale[p].pc \in {"insertTransaction", "insertItem", "updateStock"}
    /\ sale' = [sale EXCEPT ![p] = Thrown(sale[p], <<"Storage fault">>)]
    /\ UNCHANGED <<now, signup, users, products, transactions, transactionItems, edits, supplied>>

createSale(p, callers, carts) ==
    \/ \E input \in carts, userId \in callers : createSale_begin(p, input, userId)
    \/ createSale_validate(p)
    \/ createSale_insertTransaction(p)
    \/ createSale_insertItem(p)
    \/ createSale_updateStock(p)

\* the calls that fill the shop
Setup(callers, names, prices, stocks) ==
    \/ \E email \in callers, password \in ShelfPasswords :
         register(email, password)
    \/ \E name \in names, price \in prices, stock_quantity \in stocks,
          userId \in callers :
         createProduct(name, price, stock_quantity, userId)

\* the calls that edit the catalogue
Edit(callers, names, prices, stocks) ==
    \/ \E id \in ProductIds, name \in names \cup {UndefinedName},
          price \in prices \cup {Undefined},
          stock_quantity \in stocks \cup {Undefined}, userId \in callers :
         updateProduct(id, name, price, stock_quantity, userId) /\ UNCHANGED sale
    \/ \E productId \in ProductIds, userId \in callers :
         deleteProduct(productId, userId) /\ UNCHANGED sale

Running(p) == sale[p].pc \notin {"idle", "done", "failed"}

\* one shop, one list price: calls interleave at every await
Next ==
    \/ Setup(Tenants, ShelfNames, ShelfPrices, Stocks)
    \/ Edit(Tenants, ShelfNames, ShelfPrices, Stocks)
    \/ \E p \in Procs : createSale(p, Tenants, Carts)

Spec == Init /\ [][Next]_vars

\* one call at a time, each running to its end before the next arrives
NextSeq ==
    \/ /\ \A q \in Procs : ~Running(q)
       /\ \/ Setup(Tenants, ShelfNames, Prices, Stocks)
          \/ Edit(Tenants, ShelfNames, Prices, Stocks)
    \/ \E p \in Procs :
         /\ \A q \in Procs \ {p} : ~Running(q)
         /\ createSale(p, Tenants, Carts)

SpecSeq == Init /\ [][NextSeq]_vars

\* one call at a time, and the database may refuse any write
NextFault ==
    \/ NextSeq
    \/ \E p \in Procs : createSale_storageFault(p)

SpecFault == Init /\ [][NextFault]_vars

\* every call asks for one unit of the first product
RushCarts == {<<[product_id |-> 1, quantity |-> 1]>>}

NextRush ==
    \/ Setup(Tenants, ShelfNames, ShelfPrices, Stocks)
    \/ \E p \in Procs : createSale(p, Tenants, RushCarts)

SpecRush == Init /\ [][NextRush]_vars

\* one call at a time, in a shop whose products have different names
NextCatalogue ==
    \/ /\ \A q \in Procs : ~Running(q)
       /\ \/ Setup(Tenants, Names, ShelfPrices, Stocks)
          \/ Edit(Tenants, Names, ShelfPrices, Stocks)
    \/ \E p \in Procs :
         /\ \A q \in Procs \ {p} : ~Running(q)
         /\ createSale(p, Tenants, Carts)

SpecCatalogue == Init /\ [][NextCatalogue]_vars

\* ---- two shops and the clients of the product routes ----
\* a handler has returned value to the caller (a number; true is 1, false 0)
Answered(userId, value) ==
    [Idle EXCEPT !.pc = "done", !.userId = userId, !.result = value]

\* a client calls updateProduct and keeps the outcome: the error thrown or
\* the id of the product returned
products_update(p, id, name, price, stock_quantity, userId) ==
    /\ sale[p].pc = "idle"
    /\ \A q \in 1..(p - 1) : sale[q].pc # "idle"
    /\ updateProduct(id, name, price, stock_quantity, userId)
    /\ sale' = [sale EXCEPT ![p] =
             IF getProduct(id, userId) = Null
             THEN Thrown(Idle, <<"Product not found">>)
             ELSE Answered(userId, id)]

\* a client calls deleteProduct and keeps the boolean returned
products_delete(p, productId, userId) ==
    /\ sale[p].pc = "idle"
    /\ \A q \in 1..(p - 1) : sale[q].pc # "idle"
    /\ deleteProduct(productId, userId)
    /\ sale' = [sale EXCEPT ![p] =
             Answered(userId, IF getProduct(productId, userId) = Null
                              THEN 0 ELSE 1)]

\* stock levels on both sides of the dashboard's threshold
LOW_STOCK_THRESHOLD == 10
DashStocks == {LOW_STOCK_THRESHOLD, LOW_STOCK_THRESHOLD + 1}

OneLineCarts == [1..1 -> [product_id : ProductIds, quantity : {1}]]

NextOwners ==
    \/ Setup(Owners, ShelfNames, ShelfPrices, DashStocks)
    \/ \E p \in Procs, id \in ProductIds, name \in ShelfNames \cup {UndefinedName},
          price \in ShelfPrices \cup {Undefined},
          stock_quantity \in DashStocks \cup {Undefined}, userId \in Owners :
         products_update(p, id, name, price, stock_quantity, userId)
    \/ \E p \in Procs, productId \in ProductIds, userId \in Owners :
         products_delete(p, productId, userId)
    \/ \E p \in Procs : createSale(p, Owners, OneLineCarts)

SpecOwners == Init /\ [][NextOwners]_vars

\* ---- dashboard handler ----
RECURSIVE Sum(_)
Sum(amounts) == IF amounts = <<>> THEN 0 ELSE Head(amounts) + Sum(Tail(amounts))

\* the four queries of getDashboardStats (every transaction of a behaviour
\* is dated today)
getDashboardStats(userId) ==
    LET mine == {id \in 1..Len(products) :
                    products[id] # Deleted /\ products[id].user_id = userId}
        today == SelectSeq(transactions, LAMBDA t : t.user_id = userId)
        revenue == Sum([k \in 1..Len(today) |-> today[k].total_amount])
    IN [total_products |-> Cardinality(mine),
        low_stock_products |->
            Cardinality({id \in mine :
                products[id].stock_quantity <= LOW_STOCK_THRESHOLD}),
        daily_revenue |-> IF today = <<>> THEN 0 ELSE ParseFloat(revenue),
        total_transactions_today |-> Len(today)]

\* ---- router: transactions.createSale ----
\* what a client may send as items
RawCarts ==
    UNION {[1..n -> [product_id : ProductIds, quantity : (0 - 1)..MaxQty]] :
             n \in 0..MaxCart}

\* as createSaleInputSchema, the quantity only required not to be negative
createSaleInputSchema_nonnegative(input) ==
    /\ Len(input) >= 1
    /\ \A k \in 1..Len(input) : input[k].quantity >= 0

\* z.array(saleItemInputSchema).min(1), quantity: z.number().int().positive()
createSaleInputSchema(input) ==
    /\ Len(input) >= 1
    /\ \A k \in 1..Len(input) : input[k].quantity > 0

\* the paths of the issues the parse reports: 0 for items itself, k for
\* items[k].quantity
ZodIssues(input) ==
    (IF Len(input) >= 1 THEN {} ELSE {0})
        \cup {k \in 1..Len(input) : ~createSaleInputSchema(<<input[k]>>)}

\* the procedure: the middleware of protectedProcedure wants ctx.user, which
\* createContext read from the users table by the token's userId; then the
\* input is parsed; then the handler is called
transactions_createSale(p, input, userId) ==
    IF UserExists(userId) /\ createSaleInputSchema(input)
    THEN createSale_begin(p, input, userId)
    ELSE /\ sale[p].pc = "idle"
         /\ \A q \in 1..(p - 1) : sale[q].pc # "idle"
         /\ sale' = [sale EXCEPT ![p] =
                Thrown(Idle, IF UserExists(userId)
                             THEN <<"BAD_REQUEST", ZodIssues(input)>>
                             ELSE <<"UNAUTHORIZED">>)]
         /\ UNCHANGED <<now, signup, users, products, transactions, transactionItems,
                        edits, supplied>>

\* a call made through the router
requestSale(p, callers, carts) ==
    \/ \E input \in carts, userId \in callers :
         transactions_createSale(p, input, userId)
    \/ createSale_validate(p)
    \/ createSale_insertTransaction(p)
    \/ createSale_insertItem(p)
    \/ createSale_updateStock(p)

\* the shop behind the router, whatever the clients send
NextRoute ==
    \/ Setup(Tenants, ShelfNames, ShelfPrices, Stocks)
    \/ \E p \in Procs : requestSale(p, Tenants, RawCarts)

SpecRoute == Init /\ [][NextRoute]_vars

\* the transaction_items rows of transaction t, in insertion order
ItemsOf(t) == SelectSeq(transactionItems, LAMBDA r : r.transaction_id = t)

\* the (product, quantity) lines a sequence of rows or of cart lines names
Lines(rows) ==
    [k \in 1..Len(rows) |->
        [product_id |-> rows[k].product_id, quantity |-> rows[k].quantity]]

RECURSIVE SumSubtotals(_)
SumSubtotals(rows) ==
    IF rows = <<>> THEN 0 ELSE Head(rows).subtotal + SumSubtotals(Tail(rows))

\* the quantity of product id a sequence of rows or of cart lines names
RECURSIVE Quantity(_, _)
Quantity(rows, id) ==
    IF rows = <<>> THEN 0
    ELSE (IF Head(rows).product_id = id THEN Head(rows).quantity ELSE 0)
         + Quantity(Tail(rows), id)

Done(p) == sale[p].pc = "done"
Failed(p) == sale[p].pc = "failed"
Rejected(p, why) == Failed(p) /\ sale[p].error[1] = why

\* t is the transaction of a call that has returned
Committed(t) == \E p \in Procs : Done(p) /\ sale[p].transaction = t

\* units of product id in the line items of committed transactions
Sold(id) ==
    Quantity(SelectSeq(transactionItems,
                       LAMBDA r : Committed(r.transaction_id)), id)

Present(id) == id \in 1..Len(products) /\ products[id] # Deleted

\* the stock updates a running call has executed
DecrementsApplied(p) == IF sale[p].j = 0 THEN 0 ELSE sale[p].j - 1

\* ---- claims ----

\* C1: N concurrent calls, each for one unit of a product with stock K < N:
\* exactly K return, the other N-K are rejected for insufficient stock and
\* the final stock is 0.  (Checked under SpecRush, where every call asks for
\* one unit of product 1 and supplied[1] is the stock it was created with.)
C1_RushSellsExactlyTheStock ==
    ( /\ \A p \in Procs : Done(p) \/ Rejected(p, "Insufficient stock")
      /\ supplied[1] < NumProcs )
    => /\ Cardinality({p \in Procs : Done(p)}) = supplied[1]
       /\ Cardinality({p \in Procs : Failed(p)}) = NumProcs - supplied[1]
       /\ products[1].stock_quantity = 0

\* C2: in every state a sale is entirely absent or entirely present: no
\* state shows the transaction row of a call without all of its line items
\* and all of its stock decrements.
C2_SaleAllOrNothing ==
    \A p \in Procs :
        Running(p) /\ sale[p].transaction \in 1..Len(transactions) =>
            /\ Len(ItemsOf(sale[p].transaction)) = Len(sale[p].productDetails)
            /\ DecrementsApplied(p) = Len(sale[p].productDetails)

\* C3: after any sequence of sale attempts with positive quantities, every
\* product's stock_quantity is >= 0.
C3_StockNeverNegative ==
    \A id \in 1..Len(products) : products[id].stock_quantity >= 0

\* a sale has returned, a product is sold out and more units of it were sold
\* than were ever in stock
C3_Witness ==
    \E id \in ProductIds :
        /\ Present(id)
        /\ products[id].stock_quantity = 0
        /\ Sold(id) > supplied[id]

\* C4: the committed line items of a product never total more than the stock
\* that existed for it: two concurrent sales that together ask for more than
\* the stock cannot both commit.  (Checked under SpecRush.)
C4_NeverOversold ==
    \A id \in ProductIds : Sold(id) <= supplied[id]

\* every cart line of the running call p names a product its user owns
Resolvable(p) ==
    \A k \in 1..Len(sale[p].items) :
        SelectProduct(sale[p].items[k].product_id, sale[p].userId) # <<>>

\* some cart line of the running call p asks for more than is in stock
Unsatisfiable(p) ==
    \E k \in 1..Len(sale[p].items) :
        /\ SelectProduct(sale[p].items[k].product_id, sale[p].userId) # <<>>
        /\ sale[p].items[k].quantity >
               products[sale[p].items[k].product_id].stock_quantity

\* C5: a call whose cart has a line asking for more than the product's stock
\* is rejected for insufficient stock, wherever that line stands; no product,
\* transaction or line item is changed and nothing was written for it.
\* (Sequential calls; every line of the cart names a product of the caller.)
C5_UnsatisfiableCartChangesNothing ==
    [][\A p \in Procs :
         ( /\ sale[p].pc = "validate"
           /\ Resolvable(p)
           /\ Unsatisfiable(p)
           /\ sale'[p] # sale[p] )
         => /\ UNCHANGED <<products, transactions, transactionItems>>
            /\ sale[p].transaction = 0
            /\ sale'[p].transaction = 0
            /\ \/ sale'[p].pc = "validate"
               \/ /\ sale'[p].pc = "failed"
                  /\ sale'[p].error[1] = "Insufficient stock"]_vars

\* a call was rejected for insufficient stock after an earlier line of its
\* cart had passed the stock check
C5_Witness ==
    \E p \in Procs :
        /\ Rejected(p, "Insufficient stock")
        /\ sale[p].passed >= 1
        /\ sale[p].transaction = 0

\* C6: when a write fails after createSale has begun writing, the call fails
\* and no transaction row and no line item of the sale remains.
C6_FaultLeavesNothing ==
    \A p \in Procs :
        Rejected(p, "Storage fault") =>
            /\ sale[p].transaction \notin 1..Len(transactions)
            /\ ItemsOf(sale[p].transaction) = <<>>

\* C7: for every committed transaction, total_amount is the sum of the
\* subtotals of its line items and every subtotal is quantity * unit_price,
\* in exact cents.
C7_TotalsAddUp ==
    \A t \in 1..Len(transactions) :
        Committed(t) =>
            /\ transactions[t].total_amount = SumSubtotals(ItemsOf(t))
            /\ \A k \in 1..Len(ItemsOf(t)) :
                 ItemsOf(t)[k].subtotal =
                     ItemsOf(t)[k].quantity * ItemsOf(t)[k].unit_price

\* a committed transaction of two lines at different prices, one of them
\* for two units
C7_Witness ==
    \E t \in 1..Len(transactions) :
        /\ Committed(t)
        /\ Len(ItemsOf(t)) = 2
        /\ ItemsOf(t)[1].unit_price # ItemsOf(t)[2].unit_price
        /\ \E k \in 1..2 : ItemsOf(t)[k].quantity = 2

\* the stock the running call p read for product id before it wrote anything
RECURSIVE FirstRead(_, _, _)
FirstRead(details, id, default) ==
    IF details = <<>> THEN default
    ELSE IF Head(details).id = id THEN Head(details).stock_quantity
    ELSE FirstRead(Tail(details), id, default)

\* the cart priced at the products' prices, in cents
RECURSIVE CartTotal(_)
CartTotal(lines) ==
    IF lines = <<>> THEN 0
    ELSE Head(lines).quantity * products[Head(lines).product_id].price
         + CartTotal(Tail(lines))

\* C8: a successful createSale lowers the stock of each product of the cart
\* by exactly the quantity requested of it, leaves every other product's
\* stock alone and returns the sum of quantity * price over the cart lines.
\* (Sequential calls: what the call read is what was there when it began.)
C8_SaleTakesWhatWasRequested ==
    [][\A p \in Procs :
         Running(p) /\ sale'[p].pc = "done" =>
            /\ \A id \in 1..Len(products) :
                 products'[id].stock_quantity =
                     FirstRead(sale[p].productDetails, id,
                               products[id].stock_quantity)
                     - Quantity(sale[p].items, id)
            /\ sale'[p].result = ParseFloat(CartTotal(sale[p].items))]_vars

\* the transaction_items rows of transaction t after the step
ItemsAfter(t) == SelectSeq(transactionItems', LAMBDA r : r.transaction_id = t)

\* the call p has returned and the running call q repeats its request
SameRequest(p, q) ==
    /\ Done(p)
    /\ sale[p].userId = sale[q].userId
    /\ sale[p].items = sale[q].items

\* C9: the same request submitted twice in sequence gives two transactions
\* with distinct ids, each with its own line items, and lowers the stock of
\* every product of the cart a second time: the second call is not
\* deduplicated against the first.
C9_RepeatedRequestIsANewSale ==
    [][\A q \in Procs : \A p \in Procs \ {q} :
         Running(q) /\ sale'[q].pc = "done" /\ SameRequest(p, q) =>
            /\ sale'[q].transaction # sale[p].transaction
            /\ sale'[q].transaction \in 1..Len(transactions')
            /\ Lines(ItemsAfter(sale'[q].transaction)) = sale[q].items
            /\ Lines(ItemsAfter(sale[p].transaction)) = sale[q].items
            /\ \A k \in 1..Len(sale[q].items) :
                 LET id == sale[q].items[k].product_id IN
                 /\ products'[id].stock_quantity
                      < FirstRead(sale[q].productDetails, id, 0)
                 /\ Quantity(sale[q].items, id) = sale[q].items[k].quantity =>
                      products'[id].stock_quantity =
                          FirstRead(sale[q].productDetails, id, 0)
                          - sale[q].items[k].quantity]_vars

\* two calls with the same user and the same cart have returned, each with
\* a transaction of its own carrying the lines of the cart
C9_Witness ==
    \E p \in Procs : \E q \in Procs \ {p} :
        /\ Done(p) /\ Done(q)
        /\ sale[p].transaction # sale[q].transaction
        /\ sale[p].userId = sale[q].userId
        /\ sale[p].items = sale[q].items
        /\ Lines(ItemsOf(sale[p].transaction)) = sale[p].items
        /\ Lines(ItemsOf(sale[q].transaction)) = sale[q].items

\* C10: changing a product's price with updateProduct leaves the unit_price
\* and subtotal of every line item and the total_amount of every transaction
\* as they were.
C10_PriceChangeKeepsSnapshot ==
    [][(\E id \in 1..Len(products) :
           /\ Present(id)
           /\ products'[id] # Deleted
           /\ products'[id].price # products[id].price)
       => UNCHANGED <<transactions, transactionItems>>]_vars

\* a committed line item carries a unit_price that is no longer the
\* product's price
C10_Witness ==
    \E k \in 1..Len(transactionItems) :
        /\ Committed(transactionItems[k].transaction_id)
        /\ Present(transactionItems[k].product_id)
        /\ products[transactionItems[k].product_id].price
             # transactionItems[k].unit_price

\* C11: a call whose cart has a line naming a product that does not exist or
\* that another user owns is rejected with a product-not-found error naming
\* such an id, even when earlier lines were valid; no product stock is
\* changed and no transaction or line item is created for it.
C11_MissingProductIsNotFound ==
    [][\A p \in Procs :
         ( /\ sale[p].pc = "validate"
           /\ ~Resolvable(p)
           /\ sale'[p] # sale[p] )
         => /\ UNCHANGED <<products, transactions, transactionItems>>
            /\ sale'[p].transaction = 0
            /\ \/ sale'[p].pc = "validate"
               \/ /\ sale'[p].pc = "failed"
                  /\ sale'[p].error[1] = "Product not found"
                  /\ SelectProduct(sale'[p].error[2], sale[p].userId) = <<>>]_vars

\* the lines a handler may be given
WellFormed(items) ==
    /\ Len(items) >= 1
    /\ \A k \in 1..Len(items) : items[k].quantity >= 1

\* C12: a sale request with an empty item list or with a line whose quantity
\* is <= 0 is rejected with a validation error before any read or write of
\* the shop's tables: the handler is never entered, and products,
\* transactions and line items are unchanged.
C12_MalformedRequestIsRefused ==
    [][\A p \in Procs :
         /\ \A input \in RawCarts, userId \in Tenants :
              ( /\ sale'[p] # sale[p]
                /\ UserExists(userId)
                /\ ~WellFormed(input)
                /\ transactions_createSale(p, input, userId) )
              => /\ sale'[p].pc = "failed"
                 /\ sale'[p].error = <<"BAD_REQUEST", ZodIssues(input)>>
                 /\ sale'[p].transaction = 0
                 /\ UNCHANGED <<products, transactions, transactionItems>>
         /\ sale'[p].pc \notin {"idle", "failed"} => WellFormed(sale'[p].items)
      ]_vars

\* a request was refused for the quantity of its second line while the
\* product of its first line was in stock
C12_Witness ==
    \E p \in Procs :
        /\ Rejected(p, "BAD_REQUEST")
        /\ sale[p].error[2] = {2}
        /\ Present(1)
        /\ products[1].stock_quantity >= 1
        /\ transactions = <<>>

\* C13: when createSale is rejected for insufficient stock, the error names
\* the product of the failing line, the quantity requested of it and, as
\* the quantity available, the product's stock at the moment of the
\* rejection, which is less than the quantity requested.
C13_ShortageReportsCurrentStock ==
    [][\A p \in Procs :
         ( /\ sale[p].pc = "validate"
           /\ sale'[p].pc = "failed"
           /\ sale'[p].error[1] = "Insufficient stock" )
         => LET item == sale[p].items[Len(sale[p].productDetails) + 1]
            IN /\ Present(item.product_id)
               /\ sale'[p].error[2] = products'[item.product_id].name
               /\ sale'[p].error[3] = products'[item.product_id].stock_quantity
               /\ sale'[p].error[4] = item.quantity
               /\ sale'[p].error[3] < sale'[p].error[4]]_vars

\* a call was rejected for a product that earlier held more: the error
\* reports the stock left, which the catalogue still shows, and not the
\* stock the product was created with
C13_Witness ==
    \E p \in Procs : \E id \in ProductIds :
        /\ Rejected(p, "Insufficient stock")
        /\ Present(id)
        /\ \A other \in ProductIds \ {id} :
             Present(other) /\ products[other].name # products[id].name
        /\ sale[p].error[2] = products[id].name
        /\ sale[p].error[3] = products[id].stock_quantity
        /\ sale[p].error[3] >= 1
        /\ supplied[id] > sale[p].error[3]

\* C14: every sale updates its products in ascending order of product id,
\* whatever the order of the cart: no stock update of a call is for a
\* product with a smaller id than one the call has updated before.  (The
\* order is the premise of the claim's freedom from deadlock; the handler
\* takes no lock.)
C14_StockUpdatedInAscendingIdOrder ==
    [][\A p \in Procs :
         sale[p].pc = "updateStock" /\ sale'[p] # sale[p] =>
            \A k \in 1..(sale[p].j - 1) :
                sale[p].productDetails[k].id <= sale[p].productDetails[sale[p].j].id
      ]_vars

\* C15: the line items recorded for a sale are one per cart line, in the
\* order of the lines of the caller's cart.
C15_LineItemsInCartOrder ==
    \A p \in Procs :
        Done(p) => Lines(ItemsOf(sale[p].transaction)) = sale[p].items

\* a returned sale whose cart listed the product with the larger id first
\* and whose two line items are separated in the table by a row of another
\* sale
C15_Witness ==
    \E p \in Procs :
        /\ Done(p)
        /\ Len(sale[p].items) = 2
        /\ sale[p].items[1].product_id > sale[p].items[2].product_id
        /\ \E i, j, k \in 1..Len(transactionItems) :
             /\ i < j /\ j < k
             /\ transactionItems[i].transaction_id = sale[p].transaction
             /\ transactionItems[k].transaction_id = sale[p].transaction
             /\ transactionItems[j].transaction_id # sale[p].transaction

\* C16: exactly one transaction is created for each createSale that returns
\* and none for one that fails; and once created, a transaction and its
\* line items are never changed or deleted by any operation.
C16_OneTransactionPerSaleForGood ==
    [][/\ \A p \in Procs :
            /\ sale'[p].pc = "failed" => sale'[p].transaction = 0
            /\ sale'[p].pc = "done" =>
                  /\ sale'[p].transaction \in 1..Len(transactions')
                  /\ \A q \in Procs \ {p} :
                       sale'[q].transaction # sale'[p].transaction
       /\ Len(transactions') =
              Cardinality({p \in Procs : sale'[p].transaction # 0})
       /\ Len(transactions') >= Len(transactions)
       /\ \A t \in 1..Len(transactions) : transactions'[t] = transactions[t]
       /\ Len(transactionItems') >= Len(transactionItems)
       /\ \A k \in 1..Len(transactionItems) :
            transactionItems'[k] = transactionItems[k]]_vars

\* C17: for a product and a registered user who does not own it:
\* getProduct returns null; updateProduct throws 'Product not found' and
\* deleteProduct returns false, and both leave the product as it was.
C17_StrangerCannotTouchProduct ==
    [][\A id \in 1..Len(products), userId \in Owners :
         ( /\ Present(id)
           /\ UserExists(userId)
           /\ products[id].user_id # userId )
         => /\ getProduct(id, userId) = Null
            /\ \A p \in Procs :
                 /\ (\E name \in ShelfNames \cup {UndefinedName},
                        price \in ShelfPrices \cup {Undefined},
                        stock_quantity \in DashStocks \cup {Undefined} :
                        products_update(p, id, name, price, stock_quantity,
                                        userId))
                    => /\ sale'[p].pc = "failed"
                       /\ sale'[p].error = <<"Product not found">>
                       /\ products'[id] = products[id]
                 /\ products_delete(p, id, userId)
                    => /\ sale'[p].pc = "done"
                       /\ sale'[p].result = 0
                       /\ products'[id] = products[id]]_vars

\* the owner of neither product has been told 'Product not found' by
\* updateProduct and false by deleteProduct, and both products are there
C17_Witness ==
    \E p \in Procs : \E q \in Procs \ {p} :
        /\ Rejected(p, "Product not found")
        /\ Len(sale[p].error) = 1
        /\ Done(q) /\ sale[q].result = 0 /\ sale[q].transaction = 0
        /\ sale[q].userId \in 1..Len(users)
        /\ \A id \in ProductIds :
             Present(id) /\ products[id].user_id # sale[q].userId
        /\ edits = 0

\* C18: an updateProduct that succeeds sets the fields supplied among name,
\* price and stock_quantity of the product named to the values supplied,
\* and leaves its other fields, its owner and every other product as they
\* were.  (updated_at, which it also sets, is not part of the rows here.)
C18_UpdateWritesSuppliedFieldsOnly ==
    [][\A id \in 1..Len(products), userId \in Tenants,
          name \in Names \cup {UndefinedName},
          price \in ShelfPrices \cup {Undefined},
          stock_quantity \in Stocks \cup {Undefined} :
         ( /\ edits' # edits
           /\ getProduct(id, userId) # Null
           /\ updateProduct(id, name, price, stock_quantity, userId) )
         => /\ Len(products') = Len(products)
            /\ products'[id].name =
                  IF name = UndefinedName THEN products[id].name ELSE name
            /\ products'[id].price =
                  IF price = Undefined THEN products[id].price ELSE price
            /\ products'[id].stock_quantity =
                  IF stock_quantity = Undefined
                  THEN products[id].stock_quantity ELSE stock_quantity
            /\ products'[id].user_id = products[id].user_id
            /\ \A other \in 1..Len(products) \ {id} :
                 products'[other] = products[other]]_vars

\* an update has succeeded in a catalogue of two products in stock that
\* bear different names
C18_Witness ==
    /\ edits = 1
    /\ Len(products) = 2
    /\ \A id \in 1..2 : Present(id) /\ products[id].stock_quantity >= 1
    /\ products[1].name # products[2].name

\* the step is one of a product call or of a sale of user userId
StepOf(userId) ==
    \/ \E name \in ShelfNames, price \in ShelfPrices, stock_quantity \in DashStocks :
         createProduct(name, price, stock_quantity, userId)
    \/ \E p \in Procs, id \in ProductIds :
         \/ products_delete(p, id, userId)
         \/ \E name \in ShelfNames \cup {UndefinedName},
               price \in ShelfPrices \cup {Undefined},
               stock_quantity \in DashStocks \cup {Undefined} :
              products_update(p, id, name, price, stock_quantity, userId)
    \/ \E p \in Procs :
         /\ Running(p)
         /\ sale[p].userId = userId
         /\ sale'[p] # sale[p]

\* C19: getDashboardStats of a user depends on that user's products and
\* transactions only: no product call and no sale of another user changes
\* its total_products, low_stock_products, daily_revenue or
\* total_transactions_today.
C19_DashboardOfOwnDataOnly ==
    [][\A userId \in Owners : \A other \in Owners \ {userId} :
         StepOf(other) => getDashboardStats(userId)' = getDashboardStats(userId)
      ]_vars

\* a sale of one user has returned and is on that user's dashboard, whose
\* product is low in stock; the other user's dashboard shows one product
\* above the threshold and no sale
C19_Witness ==
    \E userId \in Owners : \E other \in Owners \ {userId} :
        /\ \A p \in Procs : ~Running(p)
        /\ \E p \in Procs : Done(p) /\ Committed(sale[p].transaction)
                               /\ sale[p].userId = other
        /\ getDashboardStats(userId) =
              [total_products |-> 1, low_stock_products |-> 0,
               daily_revenue |-> 0, total_transactions_today |-> 0]
        /\ getDashboardStats(other).total_products = 1
        /\ getDashboardStats(other).low_stock_products = 1
        /\ getDashboardStats(other).total_transactions_today = 1
        /\ getDashboardStats(other).daily_revenue > 0

\* C20: after any sequence of register calls, concurrent ones with the same
\* email included, at most one user exists per email; and a register call
\* for an email that is already registered is rejected and creates no user.
C20_OneUserPerEmail ==
    [][/\ \A i, j \in 1..Len(users') :
            users'[i].email = users'[j].email => i = j
       /\ \A p \in Procs :
            ( /\ signup'[p] # signup[p]
              /\ \E i \in 1..Len(users) : users[i].email = signup'[p].email )
            => /\ signup'[p].pc = "failed"
               /\ users' = users]_vars

\* two concurrent calls with the same email both found it free; one
\* created the user, the insert of the other was refused
C20_Witness ==
    \E p \in Procs : \E q \in Procs \ {p} :
        /\ signup[p].pc = "done"
        /\ signup[q].pc = "failed"
        /\ signup[q].email = signup[p].email
        /\ signup[q].error[1] # "User with this email already exists"
        /\ Cardinality({i \in 1..Len(users) :
                          users[i].email = signup[p].email}) = 1

\* C21: login succeeds only when a user with the email exists and the
\* password is the one that user registered with; an unknown email and a
\* wrong password are rejected with the same 'Invalid email or password',
\* and a rejected login changes no table.
C21_LoginNeedsTheRegisteredPassword ==
    [][\A p \in Procs, email \in Emails, password \in Passwords :
         login(p, email, password) =>
            IF \E i \in 1..Len(users) :
                  /\ users[i].email = email
                  /\ users[i].password_hash = hashPassword(password)
            THEN /\ signup'[p].pc = "done"
                 /\ signup'[p].userId \in 1..Len(users)
                 /\ users[signup'[p].userId].email = email
            ELSE /\ signup'[p].pc = "failed"
                 /\ signup'[p].error = <<"Invalid email or password">>
                 /\ UNCHANGED <<users, products, transactions, transactionItems>>
      ]_vars

\* one login was rejected for the wrong password of a registered email,
\* another, with the same error, for an email nobody has registered
C21_Witness ==
    \E p \in Procs : \E q \in Procs \ {p} :
        /\ signup[p].pc = "failed" /\ signup[q].pc = "failed"
        /\ signup[p].error = <<"Invalid email or password">>
        /\ signup[q].error = signup[p].error
        /\ \E i \in 1..Len(users) : users[i].email = signup[p].email
        /\ \A i \in 1..Len(users) : users[i].email # signup[q].email

\* the exp of a token createJWT made
Expiry(token) == base64UrlDecode(token[2]).exp

\* tokens no register or login returned: the empty one, texts that are no
\* tokens, the tokens callers hold with another signature, and tokens
\* signed with the secret for a user id that is not in the table, for a
\* payload that is no JSON and for a time that has passed
ForgedTokens ==
    { <<<<>>>>,
      <<Text("invalid_token")>>,
      <<Text("not"), Text("a"), Text("valid"), Text("jwt")>>,
      <<Text("fake"), Text("token"), Text("here")>>,
      createJWT([userId |-> Len(users) + 1, email |-> 0], now),
      <<base64UrlEncode(JWTHeader), Text("payload"),
        Signature(base64UrlEncode(JWTHeader), Text("payload"))>> }
    \cup {[signup[p].token EXCEPT ![3] = Text("wrongsignature")] :
             p \in {q \in Procs : signup[q].pc = "done"}}
    \cup {createJWT([userId |-> id, email |-> users[id].email],
                    now - JWT_EXPIRES_IN - 1) : id \in 1..Len(users)}

C23_DecrementAppliesToCurrentStock ==
    [][\A p \in Procs :
         sale[p].pc = "updateStock" /\ sale'[p] # sale[p] =>
            LET detail == sale[p].productDetails[sale[p].j] IN
            Present(detail.id) =>
               IF products[detail.id].stock_quantity >= detail.quantity
               THEN products'[detail.id].stock_quantity =
                        products[detail.id].stock_quantity - detail.quantity
               ELSE /\ sale'[p].pc = "failed"
                    /\ products' = products]_vars

\* the product id stands in more than one line
ListedTwice(items, id) ==
    \E k, m \in 1..Len(items) :
        k # m /\ items[k].product_id = id /\ items[m].product_id = id

\* C24: when a cart lists a product in more than one line, createSale
\* returns only if the sum of the quantities of those lines is <= the
\* product's stock, and the stock then goes down by that sum.  (Sequential
\* calls: the stock the call read is the stock when it began.)
C24_RepeatedProductCountsInFull ==
    [][\A p \in Procs :
         Running(p) /\ sale'[p].pc = "done" =>
            \A id \in 1..Len(products) :
                ListedTwice(sale[p].items, id) =>
                   /\ Quantity(sale[p].items, id)
                        <= FirstRead(sale[p].productDetails, id, 0)
                   /\ products'[id].stock_quantity =
                        FirstRead(sale[p].productDetails, id, 0)
                        - Quantity(sale[p].items, id)]_vars

\* C25: a stock_quantity set by updateProduct while a createSale of the
\* product is between its stock read and its stock write is not lost: when
\* the one sale there was, of one line, has returned, the product holds what
\* was supplied to it (the stock it was created with and every change
\* updateProduct made) less the quantity sold.
C25_StockEditSurvivesSale ==
    \A p \in Procs :
        ( /\ Done(p)
          /\ \A q \in Procs \ {p} : sale[q].pc = "idle"
          /\ Len(sale[p].items) = 1
          /\ Present(sale[p].items[1].product_id)
          /\ supplied[sale[p].items[1].product_id]
                >= sale[p].items[1].quantity )
        => products[sale[p].items[1].product_id].stock_quantity =
               supplied[sale[p].items[1].product_id]
               - sale[p].items[1].quantity

\* C26: whatever other users' sales and product operations it interleaves
\* with, no step of a createSale called by a user changes a product owned
\* by another user, and no line item it records is of a product owned by
\* another user.
C26_SaleTouchesOwnProductsOnly ==
    [][\A p \in Procs :
         Running(p) /\ sale'[p] # sale[p] =>
            /\ \A id \in 1..Len(products) :
                 Present(id) /\ products[id].user_id # sale[p].userId
                 => products'[id] = products[id]
            /\ \A k \in (Len(transactionItems) + 1)..Len(transactionItems') :
                 LET id == transactionItems'[k].product_id IN
                 ~(Present(id) /\ products[id].user_id # sale[p].userId)]_vars

\* a user has sold a product of their own and has been told 'Product not
\* found' for the product of another user, which is there with the stock it
\* was given and in no line item
C26_Witness ==
    \E p \in Procs : \E q \in Procs \ {p} : \E id \in ProductIds :
        /\ Done(p) /\ sale[p].transaction # 0
        /\ \E k \in 1..Len(transactionItems) :
              /\ transactionItems[k].transaction_id = sale[p].transaction
              /\ Present(transactionItems[k].product_id)
              /\ products[transactionItems[k].product_id].user_id
                    = sale[p].userId
        /\ Rejected(q, "Product not found")
        /\ sale[q].error = <<"Product not found", id>>
        /\ Present(id)
        /\ products[id].user_id # sale[p].userId
        /\ products[id].stock_quantity = supplied[id]
        /\ \A k \in 1..Len(transactionItems) :
              transactionItems[k].product_id # id

====
